---- MODULE Spec2Model ----
(***************************************************************************)
(* The Gemini Calculator: the expression buffer, the result, the history   *)
(* ledger, the mode and the AI request of App (src/unnamed/part_001, with  *)
(* the types of src/unnamed/part_000) and the solver of                    *)
(* src/services/geminiService.ts.                                          *)
(*                                                                         *)
(* A string is the sequence of its characters, so that concatenation,      *)
(* slice, trim and String(number) are computed and not assumed.            *)
(***************************************************************************)
EXTENDS Integers, Sequences, FiniteSets

VARIABLES
    mode,          \* useState<CalcMode>('standard')
    expression,    \* useState('')
    result,        \* useState('')
    history,       \* useState<CalculationRecord[]>([])
    isAiLoading,   \* useState(false)
    aiExplain,     \* useState<AiResponse | null>(null)
    pending,       \* the suspended handleAiSolve calls awaiting solveMathProblem
    nextId,        \* the next value crypto.randomUUID() returns
    solved         \* a direct call of solveMathProblem and what it gave back

vars ==
    <<mode, expression, result, history, isAiLoading, aiExplain, pending,
      nextId, solved>>

appVars ==
    <<mode, expression, result, history, isAiLoading, aiExplain, pending,
      nextId>>

----------------------------------------------------------------------------
(* Bounds of the model. *)

\* Longest buffer the keypad and the keyboard build.
MaxLen == 2

\* Records created in one run, beyond those the ledger starts with.
MaxNew == 2

\* Calls of handleAiSolve that may be suspended at once.
MaxPending == 2

\* The ledger keeps this many records: .slice(0, 50).
HistoryCap == 50

----------------------------------------------------------------------------
(* A JavaScript string is a sequence of UTF-16 code units, here a sequence *)
(* of the numbers 0 .. 65535.                                              *)

\* The characters U+0020 to U+005F in the order of their code units.
AsciiLow ==
    " !\"#$%&'()*+,-./0123456789:;<=>?@ABCDEFGHIJKLMNOPQRSTUVWXYZ[\\]^_"

\* The characters U+0061 to U+007E in the order of their code units.
AsciiHigh ==
    "abcdefghijklmnopqrstuvwxyz{|}~"

\* The characters of the literal str.
Chars(str) ==
    {SubSeq(str, i, i) : i \in 1..Len(str)}

\* The place of the character c in the literal str.
Pos(str, c) ==
    CHOOSE i \in 1..Len(str) : SubSeq(str, i, i) = c

CodeTable ==
    [c \in Chars(AsciiLow) \cup Chars(AsciiHigh) |->
        IF c \in Chars(AsciiLow)
        THEN 31 + Pos(AsciiLow, c)
        ELSE 96 + Pos(AsciiHigh, c)]

\* The code unit of the character c of AsciiLow or AsciiHigh.
Code(c) ==
    CodeTable[c]

\* The JavaScript string written as the literal str.
RECURSIVE U(_)
U(str) ==
    IF Len(str) = 0
    THEN << >>
    ELSE <<Code(SubSeq(str, 1, 1))>> \o U(SubSeq(str, 2, Len(str)))

\* a <= b on strings: the order of the first code unit that differs, a
\* prefix before the longer string.
RECURSIVE StringLE(_, _)
StringLE(a, b) ==
    IF a = << >> THEN TRUE
    ELSE IF b = << >> THEN FALSE
    ELSE IF Head(a) # Head(b) THEN Head(a) < Head(b)
    ELSE StringLE(Tail(a), Tail(b))

----------------------------------------------------------------------------
(* String literals of the source. *)

EmptyStr ==
    << >>

ErrorStr ==
    U("Error")

AiErrorStr ==
    U("AI Error")

UndefinedStr ==
    U("undefined")

NoAnswerStr ==
    U("Error: No answer provided")

NoExplanationStr ==
    U("No explanation available.")

FailedStr ==
    U("Failed to connect to AI assistant.")

CheckStr ==
    U("Please check your internet connection or API key.")

\* The texts of the keys, tokens, edits and answers of the model, and of the
\* buffers and results they lead to.
Text2 ==
    U("2")

Text22 ==
    U("22")

TextPlus2 ==
    U("+2")

Text2Plus ==
    U("2+")

Text2Plus2 ==
    U("2+2")

Text4 ==
    U("4")

TextE ==
    U("e")

TextS ==
    U("s")

TextBlank ==
    U(" ")

TextX ==
    U("x")

TextPlus ==
    U("+")

TextA ==
    U("a")

----------------------------------------------------------------------------
(* String operations. *)

ZeroUnit ==
    Code("0")

SpaceUnit ==
    Code(" ")

\* The code units of "0" to "9".
Digits ==
    ZeroUnit..Code("9")

DigitVal(c) ==
    c - ZeroUnit

DigitChar(d) ==
    ZeroUnit + d

\* The code units String.prototype.trim removes, white space and line
\* terminators: U+0009 to U+000D, U+0020, U+00A0, U+1680, U+2000 to U+200A,
\* U+2028, U+2029, U+202F, U+205F, U+3000 and U+FEFF.
WhiteSpace ==
    (9..13) \cup {32, 160, 5760} \cup (8192..8202)
        \cup {8232, 8233, 8239, 8287, 12288, 65279}

\* Whether trim removes the code unit c.
IsSpace(c) ==
    c \in WhiteSpace

\* s.slice(0, n) for 0 <= n, and s.slice(0, -1) as Slice(s, Len(s) - 1).
Slice(s, n) ==
    SubSeq(s, 1, IF n < 0 THEN 0 ELSE IF n > Len(s) THEN Len(s) ELSE n)

RECURSIVE TrimStart(_)
TrimStart(s) ==
    IF s # << >> /\ IsSpace(Head(s)) THEN TrimStart(Tail(s)) ELSE s

RECURSIVE TrimEnd(_)
TrimEnd(s) ==
    IF s # << >> /\ IsSpace(s[Len(s)]) THEN TrimEnd(Slice(s, Len(s) - 1)) ELSE s

\* s.trim()
Trim(s) ==
    TrimEnd(TrimStart(s))

\* String(n) for an integer n >= 0.
RECURSIVE NatToString(_)
NatToString(n) ==
    IF n < 10 THEN <<DigitChar(n)>>
    ELSE NatToString(n \div 10) \o <<DigitChar(n % 10)>>

----------------------------------------------------------------------------
(* math.evaluate, on texts of digits, "+", "(", the letter "x", space, tab  *)
(* and line feed.  A "(" is never closed (the model has no ")" key) and    *)
(* "x" is an undefined symbol, so a text holding either one throws.  A     *)
(* line feed ends a statement; each statement is a sum of decimal numbers  *)
(* with unary plus.  A text with no token at all evaluates to undefined, a *)
(* text of one line to its number, a text of several lines to the result   *)
(* set of its statements.  Every other character is a syntax error.        *)

Thrown ==
    [raised |-> TRUE]

Returned(v) ==
    [raised |-> FALSE, value |-> v]

\* A value math.evaluate returns: a number or undefined.
NumberValue(n) ==
    [type |-> "number", num |-> n]

Undefined ==
    [type |-> "undefined"]

\* The values of the statements of a text of several lines.
ResultSet(entries) ==
    [type |-> "resultset", entries |-> entries]

\* The white space the parser skips outside parentheses.
isWhitespace(c) ==
    c = SpaceUnit \/ c = 9

\* The line feed, which ends a statement.
LineFeed ==
    10

PlusSign ==
    Code("+")

\* "(" and "x".
Unsupported ==
    {Code("("), Code("x")}

\* st: "start" nothing read, "need" an operand is due, "num" inside a
\* number, "have" an operand is complete.
RECURSIVE ScanSum(_, _, _, _, _)
ScanSum(s, i, st, cur, acc) ==
    IF i > Len(s)
    THEN CASE st = "start" -> Returned(Undefined)
           [] st = "need" -> Thrown
           [] OTHER -> Returned(NumberValue(acc + cur))
    ELSE LET c == s[i] IN
         CASE c \in Digits ->
                IF st = "have" THEN Thrown
                ELSE ScanSum(s, i + 1, "num", cur * 10 + DigitVal(c), acc)
           [] c = PlusSign ->
                IF st \in {"start", "need"}
                THEN ScanSum(s, i + 1, "need", 0, acc)
                ELSE ScanSum(s, i + 1, "need", 0, acc + cur)
           [] isWhitespace(c) ->
                ScanSum(s, i + 1, IF st = "num" THEN "have" ELSE st, cur, acc)
           [] OTHER -> Thrown

\* The statements of s: its parts between line feeds.
RECURSIVE Statements(_)
Statements(s) ==
    IF \A i \in 1..Len(s) : s[i] # LineFeed
    THEN <<s>>
    ELSE LET i == CHOOSE k \in 1..Len(s) :
                     s[k] = LineFeed /\ \A j \in 1..(k - 1) : s[j] # LineFeed
         IN <<SubSeq(s, 1, i - 1)>> \o Statements(SubSeq(s, i + 1, Len(s)))

IsNumber(v) ==
    v.type = "number"

evaluate(s) ==
    IF \E i \in 1..Len(s) : s[i] \in Unsupported
    THEN Thrown
    ELSE IF \A i \in 1..Len(s) : s[i] # LineFeed
    THEN ScanSum(s, 1, "start", 0, 0)
    ELSE LET parts == Statements(s)
             vals == [k \in 1..Len(parts) |->
                         ScanSum(parts[k], 1, "start", 0, 0)]
         IN IF \E k \in 1..Len(parts) : vals[k].raised
            THEN Thrown
            ELSE LET entries ==
                        SelectSeq([k \in 1..Len(parts) |-> vals[k].value],
                                  IsNumber)
                 IN IF entries = << >>
                    THEN Returned(Undefined)
                    ELSE Returned(ResultSet(entries))

CommaSpace ==
    U(", ")

LeftBracket ==
    U("[")

RightBracket ==
    U("]")

\* The entries of a result set joined with ", ".
RECURSIVE JoinEntries(_)
JoinEntries(entries) ==
    IF Len(entries) = 1
    THEN NatToString(entries[1].num)
    ELSE NatToString(entries[1].num) \o CommaSpace
            \o JoinEntries(Tail(entries))

\* String(res)
String(v) ==
    CASE v.type = "undefined" -> UndefinedStr
      [] v.type = "resultset" -> LeftBracket \o JoinEntries(v.entries) \o RightBracket
      [] OTHER -> NatToString(v.num)

----------------------------------------------------------------------------
(* JSON values and the JavaScript operations solveMathProblem applies to   *)
(* them.                                                                   *)

JNull ==
    [type |-> "null"]

JString(s) ==
    [type |-> "string", str |-> s]

JArray(items) ==
    [type |-> "array", items |-> items]

\* members: a function from the member names present to their values.
JObject(members) ==
    [type |-> "object", members |-> members]

EmptyObject ==
    JObject([n \in {} |-> JNull])

\* response.text: undefined, or a text that is empty, is no JSON, or is the
\* serialisation of a JSON value.
TextUndefined ==
    [kind |-> "undefined"]

TextEmpty ==
    [kind |-> "empty"]

TextMalformed ==
    [kind |-> "malformed"]

TextOf(v) ==
    [kind |-> "json", value |-> v]

\* response.text || '{}'
TextOrBraces(text) ==
    IF text.kind \in {"undefined", "empty"} THEN TextOf(EmptyObject) ELSE text

\* JSON.parse
JSONParse(text) ==
    IF text.kind = "json" THEN Returned(text.value) ELSE Thrown

\* v.name
GetProp(v, name) ==
    CASE v.type \in {"null", "undefined"} -> Thrown
      [] v.type = "object" ->
           IF name \in DOMAIN v.members
           THEN Returned(v.members[name]) ELSE Returned(Undefined)
      [] OTHER -> Returned(Undefined)

Truthy(v) ==
    CASE v.type \in {"null", "undefined"} -> FALSE
      [] v.type = "string" -> v.str # << >>
      [] v.type = "number" -> v.num # 0
      [] OTHER -> TRUE

\* v || d
OrElse(v, d) ==
    IF Truthy(v) THEN v ELSE d

\* The string, or the strings of the array, a JSON value carries.
Strings(v) ==
    IF v.type = "string" THEN v.str
    ELSE [i \in DOMAIN v.items |-> v.items[i].str]

----------------------------------------------------------------------------
(* solveMathProblem (src/services/geminiService.ts).  upstream is what     *)
(* ai.models.generateContent does: it rejects, or it resolves to a         *)
(* response with a text.                                                   *)

Reject ==
    [kind |-> "reject"]

Respond(text) ==
    [kind |-> "response", text |-> text]

FallbackResponse ==
    [answer |-> ErrorStr, explanation |-> FailedStr, steps |-> <<CheckStr>>]

\* The body of the try block.
SolveTry(query, upstream) ==
    IF upstream.kind = "reject" THEN Thrown
    ELSE LET parsed == JSONParse(TextOrBraces(upstream.text)) IN
         IF parsed.raised THEN Thrown
         ELSE LET r == parsed.value
                  a == GetProp(r, "answer")
                  e == GetProp(r, "explanation")
                  s == GetProp(r, "steps")
              IN IF a.raised \/ e.raised \/ s.raised THEN Thrown
                 ELSE Returned(
                        [answer |-> Strings(OrElse(a.value, JString(NoAnswerStr))),
                         explanation |->
                            Strings(OrElse(e.value, JString(NoExplanationStr))),
                         steps |-> Strings(OrElse(s.value, JArray(<< >>)))])

\* A faulty variant: the catch block is missing, so a failure reaches the caller.
solveMathProblemRethrows(query, upstream) ==
    SolveTry(query, upstream)

solveMathProblem(query, upstream) ==
    LET body == SolveTry(query, upstream) IN
    IF body.raised THEN Returned(FallbackResponse) ELSE body

----------------------------------------------------------------------------
(* The state of App and its handlers (src/unnamed/part_001).  A record's    *)
(* timestamp (Date.now()) is only ever displayed; the model leaves it out. *)

Modes ==
    {"standard", "scientific", "ai"}

\* useState<AiResponse | null>(null)
Null ==
    [null |-> TRUE]

\* crypto.randomUUID(): a value no earlier call returned.
randomUUID ==
    nextId

\* A faulty variant: the slice is missing.
PrependUncapped(newRecord, prev) ==
    <<newRecord>> \o prev

\* A faulty variant: [...prev, newRecord], the new record last.
AppendCapped(newRecord, prev) ==
    Slice(prev \o <<newRecord>>, HistoryCap)

\* setHistory(prev => [newRecord, ...prev].slice(0, 50))
PrependCapped(newRecord, prev) ==
    Slice(<<newRecord>> \o prev, HistoryCap)

handleClear ==
    /\ expression' = EmptyStr
    /\ result' = EmptyStr
    /\ aiExplain' = Null

\* A faulty variant: val is put in front of the buffer.
addToExpressionPrepending(val) ==
    expression' = val \o expression

handleBackspace ==
    expression' = Slice(expression, Len(expression) - 1)

addToExpression(val) ==
    expression' = expression \o val

\* A faulty variant: a buffer equal to that of the newest record is not recorded again.
calculateDeduplicating ==
    IF expression = EmptyStr
    THEN UNCHANGED <<result, history, nextId>>
    ELSE LET res == evaluate(expression) IN
         IF res.raised
         THEN /\ result' = ErrorStr
              /\ UNCHANGED <<history, nextId>>
         ELSE LET resStr == String(res.value)
                  newRecord == [id |-> randomUUID,
                                expression |-> expression,
                                result |-> resStr]
              IN /\ result' = resStr
                 /\ IF history # << >> /\ history[1].expression = expression
                    THEN UNCHANGED <<history, nextId>>
                    ELSE /\ history' = PrependCapped(newRecord, history)
                         /\ nextId' = nextId + 1

\* A faulty variant: a rejected buffer is recorded too, with the result 'Error'.
calculateRecordingErrors ==
    IF expression = EmptyStr
    THEN UNCHANGED <<result, history, nextId>>
    ELSE LET res == evaluate(expression)
             resStr == IF res.raised THEN ErrorStr ELSE String(res.value)
             newRecord == [id |-> randomUUID,
                           expression |-> expression,
                           result |-> resStr]
         IN /\ result' = resStr
            /\ history' = PrependCapped(newRecord, history)
            /\ nextId' = nextId + 1

\* A faulty variant: the guard on the empty buffer is missing.
calculateUnguarded ==
    LET res == evaluate(expression) IN
    IF res.raised
    THEN /\ result' = ErrorStr
         /\ UNCHANGED <<history, nextId>>
    ELSE LET resStr == String(res.value)
             newRecord == [id |-> randomUUID,
                           expression |-> expression,
                           result |-> resStr]
         IN /\ result' = resStr
            /\ history' = PrependCapped(newRecord, history)
            /\ nextId' = nextId + 1

calculate ==
    IF expression = EmptyStr
    THEN UNCHANGED <<result, history, nextId>>
    ELSE LET res == evaluate(expression) IN
         IF res.raised
         THEN /\ result' = ErrorStr
              /\ UNCHANGED <<history, nextId>>
         ELSE LET resStr == String(res.value)
                  newRecord == [id |-> randomUUID,
                                expression |-> expression,
                                result |-> resStr]
              IN /\ result' = resStr
                 /\ history' = PrependCapped(newRecord, history)
                 /\ nextId' = nextId + 1

\* A faulty variant: the loading flag is set before the blank buffer is turned away.
handleAiSolveCallFlagFirst(upstream) ==
    IF Trim(expression) = EmptyStr
    THEN /\ isAiLoading' = TRUE
         /\ UNCHANGED <<aiExplain, pending>>
    ELSE /\ isAiLoading' = TRUE
         /\ aiExplain' = Null
         /\ pending' = Append(pending,
                [expression |-> expression, upstream |-> upstream])

\* handleAiSolve up to its await.  upstream is what the network will do to
\* the request; it does not depend on the state of App, so the request
\* carries it from the start.
handleAiSolveCall(upstream) ==
    IF Trim(expression) = EmptyStr
    THEN UNCHANGED <<isAiLoading, aiExplain, pending>>
    ELSE /\ isAiLoading' = TRUE
         /\ aiExplain' = Null
         /\ pending' = Append(pending,
                [expression |-> expression, upstream |-> upstream])

RemoveAt(s, i) ==
    SubSeq(s, 1, i - 1) \o SubSeq(s, i + 1, Len(s))

\* A faulty variant: the record is not marked AI and carries no explanation.
handleAiSolveResumeUnflagged(i) ==
    LET req == pending[i]
        aiRes == solveMathProblem(req.expression, req.upstream)
    IN /\ IF aiRes.raised
          THEN /\ result' = AiErrorStr
               /\ UNCHANGED <<aiExplain, history, nextId>>
          ELSE LET newRecord == [id |-> randomUUID,
                                 expression |-> req.expression,
                                 result |-> aiRes.value.answer]
               IN /\ aiExplain' = aiRes.value
                  /\ result' = aiRes.value.answer
                  /\ history' = PrependCapped(newRecord, history)
                  /\ nextId' = nextId + 1
       /\ isAiLoading' = FALSE
       /\ pending' = RemoveAt(pending, i)

\* A faulty variant: the record carries the buffer of the moment the
\* response lands.
handleAiSolveResumeCurrentBuffer(i) ==
    LET req == pending[i]
        aiRes == solveMathProblem(req.expression, req.upstream)
    IN /\ IF aiRes.raised
          THEN /\ result' = AiErrorStr
               /\ UNCHANGED <<aiExplain, history, nextId>>
          ELSE LET newRecord == [id |-> randomUUID,
                                 expression |-> expression,
                                 result |-> aiRes.value.answer,
                                 isAi |-> TRUE,
                                 explanation |-> aiRes.value.explanation]
               IN /\ aiExplain' = aiRes.value
                  /\ result' = aiRes.value.answer
                  /\ history' = PrependCapped(newRecord, history)
                  /\ nextId' = nextId + 1
       /\ isAiLoading' = FALSE
       /\ pending' = RemoveAt(pending, i)

\* handleAiSolve from its await on, for the i-th suspended call: expression
\* is the one the closure captured.
handleAiSolveResume(i) ==
    LET req == pending[i]
        aiRes == solveMathProblem(req.expression, req.upstream)
    IN /\ IF aiRes.raised
          THEN /\ result' = AiErrorStr
               /\ UNCHANGED <<aiExplain, history, nextId>>
          ELSE LET newRecord == [id |-> randomUUID,
                                 expression |-> req.expression,
                                 result |-> aiRes.value.answer,
                                 isAi |-> TRUE,
                                 explanation |-> aiRes.value.explanation]
               IN /\ aiExplain' = aiRes.value
                  /\ result' = aiRes.value.answer
                  /\ history' = PrependCapped(newRecord, history)
                  /\ nextId' = nextId + 1
       /\ isAiLoading' = FALSE
       /\ pending' = RemoveAt(pending, i)

OperatorKeys ==
    {TextPlus, U("-"), U("*"), U("/"), U("("), U(")"), U("."), U("^")}

EnterKey ==
    U("Enter")

BackspaceKey ==
    U("Backspace")

EscapeKey ==
    U("Escape")

ZeroStr ==
    U("0")

NineStr ==
    U("9")

\* e.key >= '0' && e.key <= '9', a comparison of strings: it holds of "10"
\* and of "5x" as of "5".
IsDigitKey(key) ==
    StringLE(ZeroStr, key) /\ StringLE(key, NineStr)

\* A faulty variant: the keys are handled in the ai mode too.
onKeyPressInEveryMode(key) ==
    CASE (IsDigitKey(key) \/ key \in OperatorKeys) ->
           /\ addToExpression(key)
           /\ UNCHANGED <<result, history, aiExplain, nextId>>
      [] key = EnterKey ->
           /\ calculate
           /\ UNCHANGED <<expression, aiExplain>>
      [] key = BackspaceKey ->
           /\ handleBackspace
           /\ UNCHANGED <<result, history, aiExplain, nextId>>
      [] key = EscapeKey ->
           /\ handleClear
           /\ UNCHANGED <<history, nextId>>
      [] OTHER ->
           UNCHANGED <<expression, result, history, aiExplain, nextId>>

onKeyPress(key) ==
    IF mode = "ai"
    THEN UNCHANGED <<expression, result, history, aiExplain, nextId>>
    ELSE CASE (IsDigitKey(key) \/ key \in OperatorKeys) ->
                /\ addToExpression(key)
                /\ UNCHANGED <<result, history, aiExplain, nextId>>
           [] key = EnterKey ->
                /\ calculate
                /\ UNCHANGED <<expression, aiExplain>>
           [] key = BackspaceKey ->
                /\ handleBackspace
                /\ UNCHANGED <<result, history, aiExplain, nextId>>
           [] key = EscapeKey ->
                /\ handleClear
                /\ UNCHANGED <<history, nextId>>
           [] OTHER ->
                UNCHANGED <<expression, result, history, aiExplain, nextId>>

----------------------------------------------------------------------------
(* What the user and the network can do.                                   *)

\* The keypad tokens the model presses.  The function keys of the scientific
\* mode ('sin(', 'pi', ...) call the same addToExpression and are left out.
ButtonTokens ==
    {Text2, TextPlus}

\* The keys the model presses.
Keys ==
    {Text2, TextPlus, EnterKey, BackspaceKey, EscapeKey, TextA}

\* The texts the model types into the textarea of the ai mode.
EditTexts ==
    {EmptyStr, TextBlank, TextX}

\* What the network does to a request the model sends.
FullAnswer ==
    JObject([n \in {"answer", "explanation", "steps"} |->
                CASE n = "answer" -> JString(Text4)
                  [] n = "explanation" -> JString(TextE)
                  [] n = "steps" -> JArray(<<JString(TextS)>>)])

Upstreams ==
    {Reject, Respond(TextMalformed), Respond(TextUndefined),
     Respond(TextOf(FullAnswer))}

\* An id is left for a new record, beside those the suspended calls will take.
IdsLeft ==
    nextId + Len(pending) <= MaxNew

\* A faulty variant: a switch of mode drops the request in flight.
ClickModeAborting(m) ==
    /\ mode' = m
    /\ handleClear
    /\ pending' = << >>
    /\ isAiLoading' = FALSE
    /\ UNCHANGED <<history, nextId, solved>>

\* A faulty variant: the button of the mode shown does nothing.
ClickModeOnlyOnChange(m) ==
    IF m = mode
    THEN UNCHANGED vars
    ELSE /\ mode' = m
         /\ handleClear
         /\ UNCHANGED <<history, isAiLoading, pending, nextId, solved>>

ClickMode(m) ==
    /\ mode' = m
    /\ handleClear
    /\ UNCHANGED <<history, isAiLoading, pending, nextId, solved>>

ClickToken(val) ==
    /\ mode # "ai"
    /\ Len(expression) + Len(val) <= MaxLen
    /\ addToExpression(val)
    /\ UNCHANGED <<mode, result, history, isAiLoading, aiExplain, pending,
                   nextId, solved>>

\* A faulty variant: AC also drops the loading flag.
ClickACResettingLoading ==
    /\ mode # "ai"
    /\ handleClear
    /\ isAiLoading' = FALSE
    /\ UNCHANGED <<mode, history, pending, nextId, solved>>

ClickAC ==
    /\ mode # "ai"
    /\ handleClear
    /\ UNCHANGED <<mode, history, isAiLoading, pending, nextId, solved>>

ClickEquals ==
    /\ mode # "ai"
    /\ (expression # EmptyStr /\ ~evaluate(expression).raised) => IdsLeft
    /\ calculate
    /\ UNCHANGED <<mode, expression, isAiLoading, aiExplain, pending, solved>>

KeyDown(key) ==
    /\ (IsDigitKey(key) \/ key \in OperatorKeys)
          => Len(expression) + Len(key) <= MaxLen
    /\ (key = EnterKey /\ expression # EmptyStr /\ ~evaluate(expression).raised)
          => IdsLeft
    /\ onKeyPress(key)
    /\ UNCHANGED <<mode, isAiLoading, pending, solved>>

ChangeText(text) ==
    /\ mode = "ai"
    /\ expression' = text
    /\ UNCHANGED <<mode, result, history, isAiLoading, aiExplain, pending,
                   nextId, solved>>

\* A faulty variant: the button is not disabled while a request is loading.
AskDisabledIgnoringLoading ==
    expression = EmptyStr

\* The Ask Gemini button: disabled={isAiLoading || !expression}.
AskDisabled ==
    isAiLoading \/ expression = EmptyStr

\* A faulty variant: the request can be started in every mode.
ClickAskGeminiInEveryMode(upstream) ==
    /\ ~AskDisabled
    /\ Trim(expression) # EmptyStr => (Len(pending) < MaxPending /\ IdsLeft)
    /\ handleAiSolveCall(upstream)
    /\ UNCHANGED <<mode, expression, result, history, nextId, solved>>

ClickAskGemini(upstream) ==
    /\ mode = "ai"
    /\ ~AskDisabled
    /\ Trim(expression) # EmptyStr => (Len(pending) < MaxPending /\ IdsLeft)
    /\ handleAiSolveCall(upstream)
    /\ UNCHANGED <<mode, expression, result, history, nextId, solved>>

AiResolve ==
    \E i \in 1..Len(pending) :
        /\ handleAiSolveResume(i)
        /\ UNCHANGED <<mode, expression, solved>>

\* A faulty variant: Clear All also drops the AI response.
ClickClearAllResetting ==
    /\ history' = << >>
    /\ aiExplain' = Null
    /\ UNCHANGED <<mode, expression, result, isAiLoading, pending, nextId,
                   solved>>

ClickClearAll ==
    /\ history' = << >>
    /\ UNCHANGED <<mode, expression, result, isAiLoading, aiExplain, pending,
                   nextId, solved>>

\* The expression and the result of every record shown.
Shown ==
    {<<history[i].expression, history[i].result>> : i \in 1..Len(history)}

\* A faulty variant: the record replayed moves to the top of the ledger.
ClickRecordPromoting(expr, res) ==
    /\ <<expr, res>> \in Shown
    /\ expression' = expr
    /\ result' = res
    /\ LET i == CHOOSE k \in 1..Len(history) :
                    /\ history[k].expression = expr
                    /\ history[k].result = res
       IN history' = <<history[i]>> \o RemoveAt(history, i)
    /\ UNCHANGED <<mode, isAiLoading, aiExplain, pending, nextId, solved>>

\* A faulty variant: the expression replayed is evaluated again.
ClickRecordRecalculating(expr, res) ==
    /\ <<expr, res>> \in Shown
    /\ expression' = expr
    /\ result' = IF evaluate(expr).raised
                 THEN ErrorStr ELSE String(evaluate(expr).value)
    /\ UNCHANGED <<mode, history, isAiLoading, aiExplain, pending, nextId,
                   solved>>

\* onClick of a record of the ledger: only its expression and its result
\* are read.
ClickRecord(expr, res) ==
    /\ <<expr, res>> \in Shown
    /\ expression' = expr
    /\ result' = res
    /\ UNCHANGED <<mode, history, isAiLoading, aiExplain, pending, nextId,
                   solved>>

\* A ledger of n records, as n runs of calculate on the buffer "2" leave it.
Ledger(n) ==
    [i \in 1..n |-> [id |-> 1 - i, expression |-> Text2,
                     result |-> Text2]]

NotCalled ==
    [state |-> "idle"]

Init ==
    /\ mode = "standard"
    /\ expression = EmptyStr
    /\ result = EmptyStr
    /\ history = << >>
    /\ isAiLoading = FALSE
    /\ aiExplain = Null
    /\ pending = << >>
    /\ nextId = 1
    /\ solved = NotCalled

Next ==
    \/ \E m \in Modes : ClickMode(m)
    \/ \E val \in ButtonTokens : ClickToken(val)
    \/ ClickAC
    \/ ClickEquals
    \/ \E key \in Keys : KeyDown(key)
    \/ \E text \in EditTexts : ChangeText(text)
    \/ \E upstream \in Upstreams : ClickAskGemini(upstream)
    \/ AiResolve
    \/ ClickClearAll
    \/ \E er \in Shown : ClickRecord(er[1], er[2])

Spec ==
    Init /\ [][Next]_vars

\* The request the network is working on is answered or fails in the end.
LiveSpec ==
    Spec /\ WF_vars(AiResolve)

\* App after HistoryCap - 1 runs of calculate on the buffer "2".
CapInit ==
    /\ mode = "standard"
    /\ expression = Text2
    /\ result = Text2
    /\ history = Ledger(HistoryCap - 1)
    /\ isAiLoading = FALSE
    /\ aiExplain = Null
    /\ pending = << >>
    /\ nextId = 1
    /\ solved = NotCalled

CapSpec ==
    CapInit /\ [][Next]_vars

----------------------------------------------------------------------------
(* solveMathProblem called on its own, on every reply of the upstream.     *)

Absent ==
    [type |-> "absent"]

FieldNames ==
    {"answer", "explanation", "steps"}

\* The JSON object with the members given that are not Absent.
MakeObject(a, e, s) ==
    LET all == [n \in FieldNames |->
                  CASE n = "answer" -> a
                    [] n = "explanation" -> e
                    [] n = "steps" -> s]
    IN JObject([n \in {k \in FieldNames : all[k] # Absent} |-> all[n]])

AnswerFields ==
    {Absent, JNull, JString(EmptyStr), JString(Text4)}

ExplanationFields ==
    {Absent, JString(EmptyStr), JString(TextE)}

StepsFields ==
    {Absent, JNull, JArray(<< >>), JArray(<<JString(TextS)>>)}

Payloads ==
    {MakeObject(a, e, s) :
        a \in AnswerFields, e \in ExplanationFields, s \in StepsFields}

AllUpstreams ==
    {Reject, Respond(TextUndefined), Respond(TextEmpty), Respond(TextMalformed),
     Respond(TextOf(JNull)), Respond(TextOf(NumberValue(0)))}
      \cup {Respond(TextOf(v)) : v \in Payloads}

Queries ==
    {TextX, Text2}

SolveInit ==
    /\ mode = "standard"
    /\ expression = EmptyStr
    /\ result = EmptyStr
    /\ history = << >>
    /\ isAiLoading = FALSE
    /\ aiExplain = Null
    /\ pending = << >>
    /\ nextId = 1
    /\ solved \in {[state |-> "called", query |-> q, upstream |-> u] :
                      q \in Queries, u \in AllUpstreams}

SolveReturn ==
    /\ solved.state = "called"
    /\ solved' = [state |-> "returned", query |-> solved.query,
                  upstream |-> solved.upstream,
                  outcome |-> solveMathProblem(solved.query, solved.upstream)]
    /\ UNCHANGED appVars

SolveSpec ==
    SolveInit /\ [][SolveReturn]_vars

----------------------------------------------------------------------------
(* The claims.                                                             *)

\* The step resumes the i-th suspended call of handleAiSolve.
Resolves(i) ==
    i \in 1..Len(pending) /\ pending' = RemoveAt(pending, i)

\* The upstream fails: the transport rejects, or the reply is no JSON.
FailingUpstream(u) ==
    u = Reject \/ u = Respond(TextMalformed)

\* The step runs calculate: the "=" button, or Enter outside the ai mode.
CalculateStep ==
    ClickEquals \/ (mode # "ai" /\ KeyDown(EnterKey))

Ids(h) ==
    {h[i].id : i \in 1..Len(h)}

\* C1: when the AI Problem Solver fails (transport error or malformed
\* reply), the resolution sets Result to 'AI Error' and leaves the history
\* as it was.
C1_FailureShowsAiErrorNoRecord ==
    [][\A i \in 1..Len(pending) :
          (Resolves(i) /\ FailingUpstream(pending[i].upstream))
             => (result' = AiErrorStr /\ history' = history)]_vars

\* A reply the claim C2 counts as an internal failure: a transport error, a
\* malformed or empty payload, or a payload lacking one of the three fields.
InternalFailure(u) ==
    \/ u = Reject
    \/ /\ u.kind = "response"
       /\ \/ u.text.kind \in {"undefined", "empty", "malformed"}
          \/ /\ u.text.kind = "json"
             /\ u.text.value.type = "object"
             /\ DOMAIN u.text.value.members # FieldNames

\* C2 as written: solveMathProblem never raises, and on every internal
\* failure it returns exactly the fallback record: answer 'Error',
\* explanation 'Failed to connect to AI assistant.', one step.
C2_AlwaysFallbackOnFailure ==
    (solved.state = "returned" /\ InternalFailure(solved.upstream))
       => /\ ~solved.outcome.raised
          /\ solved.outcome.value.answer = ErrorStr
          /\ solved.outcome.value.explanation = FailedStr
          /\ Len(solved.outcome.value.steps) = 1

\* The member of a parsed payload, when it is there and is not null, "" or
\* missing; the default otherwise.
MemberOr(v, name, default) ==
    IF /\ v.type = "object"
       /\ name \in DOMAIN v.members
       /\ v.members[name] \notin {JNull, JString(EmptyStr)}
    THEN IF v.members[name].type = "string"
         THEN v.members[name].str
         ELSE [k \in DOMAIN v.members[name].items |->
                   v.members[name].items[k].str]
    ELSE default

\* C2 amended: solveMathProblem never raises.  On a transport error, a
\* payload that is no JSON or the payload null it returns the fallback
\* record (answer 'Error', explanation 'Failed to connect to AI assistant.',
\* the one step 'Please check your internet connection or API key.').  On an
\* empty payload, or a payload in which answer, explanation or steps is
\* missing, null or empty, it returns the fields that are there and, for
\* each one that is not, its own default: answer 'Error: No answer
\* provided', explanation 'No explanation available.', no steps.
C2_FallbackOrFieldDefaults ==
    solved.state = "returned" =>
       LET u == solved.upstream
           out == solved.outcome
       IN /\ ~out.raised
          /\ IF \/ u = Reject
                \/ u.text.kind = "malformed"
                \/ (u.text.kind = "json" /\ u.text.value = JNull)
             THEN out.value =
                     [answer |-> ErrorStr, explanation |-> FailedStr,
                      steps |-> <<CheckStr>>]
             ELSE LET v == IF u.text.kind = "json"
                           THEN u.text.value ELSE EmptyObject
                  IN out.value =
                        [answer |-> MemberOr(v, "answer", NoAnswerStr),
                         explanation |->
                            MemberOr(v, "explanation", NoExplanationStr),
                         steps |-> MemberOr(v, "steps", << >>)]

\* An empty payload came back as the per-field defaults, not as the fallback.
C2_Witness ==
    /\ solved.state = "returned"
    /\ solved.upstream = Respond(TextEmpty)
    /\ solved.outcome.value.answer = NoAnswerStr
    /\ solved.outcome.value.steps = << >>

\* C3: the history ledger never holds more than 50 records.
C3_HistoryAtMostCap ==
    Len(history) <= HistoryCap

\* Two records were made on a ledger of 49: the ledger is full and its
\* oldest record is gone.
C3_Witness ==
    /\ Len(history) = HistoryCap
    /\ history[1].id = 2
    /\ history[HistoryCap] = Ledger(HistoryCap - 1)[HistoryCap - 2]

\* C4: a recording step leaves the new record first, the earlier records
\* after it in their order, and drops only the last one, and only when the
\* ledger held 50.
C4_RecordPrependsAndTruncates ==
    [][nextId' # nextId =>
          /\ history' # << >>
          /\ history'[1].id = nextId
          /\ Len(history') = IF Len(history) < HistoryCap
                             THEN Len(history) + 1 ELSE HistoryCap
          /\ \A i \in 2..Len(history') : history'[i] = history[i - 1]]_vars

\* An AI record pushed the oldest record out of a full ledger.
C4_Witness ==
    /\ Len(history) = HistoryCap
    /\ nextId = 3
    /\ "isAi" \in DOMAIN history[1]
    /\ history[2].id = 1
    /\ history[3] = Ledger(HistoryCap - 1)[1]

\* C5: calculate on a buffer the evaluator accepts sets Result to the text
\* of the value and puts one new record first, holding the buffer and the
\* new Result, not marked AI, with an id no record of the ledger has; the
\* buffer stays.  It does so whatever the ledger holds, also a record of the
\* same buffer.
C5_CalculateRecordsSuccess ==
    [][(CalculateStep /\ expression # EmptyStr
          /\ ~evaluate(expression).raised) =>
          /\ expression = Text22 => result' = Text22
          /\ expression = TextPlus2 => result' = Text2
          /\ expression = Text2Plus2 => result' = Text4
          /\ result' # ErrorStr
          /\ expression' = expression
          /\ Len(history') = IF Len(history) < HistoryCap
                             THEN Len(history) + 1 ELSE HistoryCap
          /\ \A k \in 2..Len(history') : history'[k] = history[k - 1]
          /\ history'[1].expression = expression
          /\ history'[1].result = result'
          /\ "isAi" \notin DOMAIN history'[1]
          /\ history'[1].id \notin Ids(history)]_vars

\* calculate ran twice on the same buffer: two records, two ids.
C5_Witness ==
    /\ Len(history) = 2
    /\ expression = Text22
    /\ result = Text22
    /\ history[1].expression = expression
    /\ history[2].expression = expression
    /\ history[1].id # history[2].id
    /\ "isAi" \notin DOMAIN history[1]

\* C6: calculate on a buffer the evaluator rejects sets Result to 'Error'
\* and changes neither the ledger nor the buffer, the mode, the loading flag
\* or the AI response.
C6_CalculateErrorNoRecord ==
    [][(CalculateStep /\ expression # EmptyStr
          /\ evaluate(expression).raised) =>
          /\ result' = ErrorStr
          /\ UNCHANGED <<history, expression, mode, isAiLoading, aiExplain>>
      ]_vars

\* "2+" was rejected after "2" had been recorded: the ledger still holds
\* that one record.
C6_Witness ==
    /\ result = ErrorStr
    /\ expression = Text2Plus
    /\ mode = "standard"
    /\ aiExplain = Null
    /\ Len(history) = 1
    /\ history[1].expression = Text2

\* C7: once the loading flag is set it becomes false again, whatever the
\* user does meanwhile; a trigger on a blank buffer does not leave it set.
C7_LoadingClears ==
    isAiLoading ~> ~isAiLoading

\* A request resolved after the user had left the ai mode: the flag is down.
C7_Witness ==
    /\ ~isAiLoading
    /\ pending = << >>
    /\ mode = "scientific"
    /\ aiExplain # Null
    /\ expression = Text2

\* C8: at most one AI request is in flight.
C8_OneRequestInFlight ==
    Len(pending) <= 1

\* A request is in flight while the ai mode shows another, non-blank buffer:
\* the trigger is there and is disabled.
C8_Witness ==
    /\ Len(pending) = 1
    /\ isAiLoading
    /\ mode = "ai"
    /\ Trim(expression) # EmptyStr
    /\ expression # pending[1].expression

\* C9: a request leaves the in-flight set only by resolving, and its
\* resolution writes the response into the AI-response holder and its
\* answer into Result, whatever the mode is by then.
C9_LateResponseLands ==
    [][pending' # pending =>
          \/ /\ Len(pending') = Len(pending) + 1
             /\ SubSeq(pending', 1, Len(pending)) = pending
          \/ \E i \in 1..Len(pending) :
                /\ Resolves(i)
                /\ aiExplain' # Null
                /\ result' = aiExplain'.answer
                /\ pending[i].upstream = Respond(TextOf(FullAnswer))
                      => aiExplain'.answer = Text4
                /\ FailingUpstream(pending[i].upstream)
                      => aiExplain'.answer = ErrorStr]_vars

\* The mode is not ai, and Result and the AI response are those of a request
\* that resolved after the switch.
C9_Witness ==
    /\ mode \in {"standard", "scientific"}
    /\ aiExplain # Null
    /\ aiExplain.answer = Text4
    /\ result = Text4
    /\ expression = EmptyStr

\* C10: on a well-formed response Result is its answer, the AI-response
\* holder is the response, and one record is put first, marked AI, with the
\* answer as result and the explanation of the response.
C10_SuccessRecordsAiAnswer ==
    [][\A i \in 1..Len(pending) :
          (Resolves(i) /\ pending[i].upstream = Respond(TextOf(FullAnswer)))
             => /\ result' = Text4
                /\ aiExplain' = [answer |-> Text4, explanation |-> TextE,
                                 steps |-> << TextS >>]
                /\ Len(history') = IF Len(history) < HistoryCap
                                   THEN Len(history) + 1 ELSE HistoryCap
                /\ \A k \in 2..Len(history') : history'[k] = history[k - 1]
                /\ "isAi" \in DOMAIN history'[1]
                /\ history'[1].isAi = TRUE
                /\ history'[1].result = Text4
                /\ history'[1].explanation = TextE]_vars

\* The newest record is the AI record of the response shown.
C10_Witness ==
    /\ history # << >>
    /\ "isAi" \in DOMAIN history[1]
    /\ history[1].result = Text4
    /\ history[1].explanation = TextE
    /\ aiExplain # Null
    /\ result = Text4
    /\ mode = "ai"

\* What setMode(m) followed by handleClear leaves.
ModeSet(m) ==
    /\ mode' = m
    /\ expression' = EmptyStr
    /\ result' = EmptyStr
    /\ aiExplain' = Null

\* C11: the button of every mode can be pressed in every state, also that of
\* the mode shown, and every press leaves that mode with the buffer and
\* Result empty and no AI response.
C11_SetModeClears ==
    \A m \in Modes :
       /\ ENABLED ClickMode(m)
       /\ ~ENABLED (ClickMode(m) /\ ~ModeSet(m))

\* The scientific mode was chosen while a request was loading and after
\* records had been made: all is cleared but the ledger and the flag.
C11_Witness ==
    /\ mode = "scientific"
    /\ expression = EmptyStr
    /\ result = EmptyStr
    /\ aiExplain = Null
    /\ isAiLoading
    /\ history # << >>

\* C12: a click on any record of the ledger puts its expression in the
\* buffer and its result in Result, and changes neither the ledger, the mode
\* nor the loading flag; no evaluator and no solver runs (no id is taken, no
\* request starts, the AI response stays).
C12_SelectReplaysRecord ==
    \A i \in 1..Len(history) :
       LET rec == history[i] IN
       /\ ENABLED ClickRecord(rec.expression, rec.result)
       /\ ~ENABLED (/\ ClickRecord(rec.expression, rec.result)
                    /\ ~(/\ expression' = rec.expression
                         /\ result' = rec.result
                         /\ UNCHANGED <<history, mode, isAiLoading, aiExplain,
                                        pending, nextId>>))

\* The older record, an AI record, was replayed in the standard mode.
C12_Witness ==
    /\ Len(history) = 2
    /\ "isAi" \in DOMAIN history[2]
    /\ expression = history[2].expression
    /\ result = history[2].result
    /\ history[1].expression # expression
    /\ mode = "standard"

\* What calculate leaves when run on the buffer of this state.
Calculated ==
    IF expression = EmptyStr
    THEN UNCHANGED <<result, history>>
    ELSE IF evaluate(expression).raised
         THEN result' = ErrorStr /\ history' = history
         ELSE /\ result' = String(evaluate(expression).value)
              /\ history' # << >>
              /\ history'[1].expression = expression
              /\ history'[1].result = result'

\* What a key leaves outside the ai mode.
KeyEffect(key) ==
    CASE (Len(key) = 1 /\ (key[1] \in Digits \/ key \in OperatorKeys)) ->
           /\ expression' = Append(expression, key[1])
           /\ UNCHANGED <<result, history, aiExplain>>
      [] key = EnterKey ->
           Calculated /\ UNCHANGED <<expression, aiExplain>>
      [] key = BackspaceKey ->
           /\ expression' = SubSeq(expression, 1, Len(expression) - 1)
           /\ UNCHANGED <<result, history, aiExplain>>
      [] key = EscapeKey ->
           /\ expression' = EmptyStr
           /\ result' = EmptyStr
           /\ aiExplain' = Null
           /\ history' = history
      [] OTHER -> UNCHANGED <<expression, result, history, aiExplain>>

\* C13: in the ai mode no key changes the buffer, Result, the ledger or the
\* AI response; in the other modes a digit or operator key appends its
\* character, Enter runs calculate on the buffer of that moment, Backspace
\* drops the last character and Escape clears buffer, Result and AI response.
C13_KeyRouting ==
    \A key \in Keys :
       IF mode = "ai"
       THEN ~ENABLED (KeyDown(key)
                        /\ ~UNCHANGED <<expression, result, history, aiExplain>>)
       ELSE ~ENABLED (KeyDown(key) /\ ~KeyEffect(key))

\* The ai mode holds a buffer the keys leave alone, beside a ledger.
C13_Witness ==
    /\ mode = "ai"
    /\ expression = TextBlank
    /\ history # << >>
    /\ aiExplain = Null
    /\ ~isAiLoading

\* C14: an append leaves the old buffer followed by the token, character by
\* character, and changes neither Result, the ledger, the mode, the loading
\* flag nor the AI response; so a run of appends leaves the starting buffer
\* followed by the tokens in the order of the calls.
C14_AppendConcatenates ==
    \A val \in ButtonTokens :
       ~ENABLED (/\ ClickToken(val)
                 /\ ~(/\ Len(expression') = Len(expression) + Len(val)
                      /\ \A k \in 1..Len(expression) :
                            expression'[k] = expression[k]
                      /\ \A k \in 1..Len(val) :
                            expression'[Len(expression) + k] = val[k]
                      /\ UNCHANGED <<result, history, mode, isAiLoading,
                                     aiExplain>>))

\* "2" was calculated and "+" appended: Result still shows "2".
C14_Witness ==
    /\ expression = Text2Plus
    /\ result = Text2
    /\ Len(history) = 1
    /\ history[1].expression = Text2
    /\ mode = "standard"

\* C15: calculate on an empty buffer, by the "=" button or by Enter, changes
\* nothing: no Result, no record.
C15_CalculateEmptyIsNoOp ==
    (mode # "ai" /\ expression = EmptyStr) =>
       /\ ENABLED ClickEquals
       /\ ~ENABLED (ClickEquals /\ ~UNCHANGED vars)
       /\ ~ENABLED (KeyDown(EnterKey) /\ ~UNCHANGED vars)

\* The buffer is empty beside an earlier Result and its record.
C15_Witness ==
    /\ mode = "standard"
    /\ expression = EmptyStr
    /\ result = Text2
    /\ Len(history) = 1
    /\ aiExplain = Null
    /\ ~isAiLoading

\* Calculate, the edits of the buffer, the replay of a record and Clear All
\* leave the AI response as it is.
OthersKeepResponse ==
    /\ ~ENABLED (ClickEquals /\ aiExplain' # aiExplain)
    /\ \A key \in Keys \ {EscapeKey} :
          ~ENABLED (KeyDown(key) /\ aiExplain' # aiExplain)
    /\ \A val \in ButtonTokens :
          ~ENABLED (ClickToken(val) /\ aiExplain' # aiExplain)
    /\ \A text \in EditTexts :
          ~ENABLED (ChangeText(text) /\ aiExplain' # aiExplain)
    /\ \A er \in Shown :
          ~ENABLED (ClickRecord(er[1], er[2]) /\ aiExplain' # aiExplain)
    /\ ~ENABLED (ClickClearAll /\ aiExplain' # aiExplain)

\* AC and Escape leave the AI response as it is.
AllClearKeepsResponse ==
    /\ ~ENABLED (ClickAC /\ aiExplain' # aiExplain)
    /\ ~ENABLED (KeyDown(EscapeKey) /\ aiExplain' # aiExplain)

\* C16 as claimed: a stored AI response is made absent by no all-clear,
\* Escape, calculate, buffer edit, history selection or history clear.
C16_OnlyTriggerOrModeSwitchClears ==
    aiExplain # Null => (OthersKeepResponse /\ AllClearKeepsResponse)

\* C16 amended: a stored AI response is left as it is by calculate, buffer
\* edits, history selection and history clear, and in the ai mode by AC and
\* Escape too, which do nothing there; outside the ai mode, where a response
\* that landed late is held, AC and Escape make it absent.
C16_AllClearAlsoClears ==
    aiExplain # Null =>
       /\ OthersKeepResponse
       /\ IF mode = "ai"
          THEN AllClearKeepsResponse
          ELSE /\ ENABLED (ClickAC /\ aiExplain' = Null)
               /\ ENABLED (KeyDown(EscapeKey) /\ aiExplain' = Null)
               /\ ~ENABLED (ClickAC /\ aiExplain' # Null)
               /\ ~ENABLED (KeyDown(EscapeKey) /\ aiExplain' # Null)

\* The response is still held in the ai mode after the ledger was cleared
\* and the buffer edited.
C16_Witness ==
    /\ aiExplain # Null
    /\ mode = "ai"
    /\ history = << >>
    /\ expression = TextBlank

\* C17: in the ai mode neither "=" nor Enter runs the evaluator; outside
\* the ai mode no AI request can be started.
C17_ModeGatesEngines ==
    IF mode = "ai"
    THEN /\ ~ENABLED ClickEquals
         /\ ~ENABLED (KeyDown(EnterKey) /\ ~UNCHANGED <<result, history, nextId>>)
    ELSE \A upstream \in Upstreams :
            ~ENABLED (ClickAskGemini(upstream) /\ ~UNCHANGED vars)

\* A buffer the evaluator accepts sits in the ai mode, replayed from a
\* record, with no request in flight.
C17_Witness ==
    /\ mode = "ai"
    /\ expression = Text22
    /\ ~isAiLoading
    /\ history # << >>

\* C18: every step that changes the ledger either empties it or puts one
\* record with a fresh id on top of the records it had, each of them
\* unchanged and in the same order, the last one dropped when there were
\* already 50.
C18_RecordsImmutable ==
    [][history' # history =>
          \/ history' = << >>
          \/ /\ Len(history') =
                   IF Len(history) < HistoryCap
                   THEN Len(history) + 1 ELSE HistoryCap
             /\ history'[1].id \notin Ids(history)
             /\ \A k \in 2..Len(history') : history'[k] = history[k - 1]]_vars

\* The ledger was cleared and a record made after it.
C18_Witness ==
    /\ Len(history) = 1
    /\ history[1].id = 2
    /\ "isAi" \notin DOMAIN history[1]

\* C19: the loading flag is set exactly while a request is in flight, and
\* neither a mode button nor AC during loading resets the flag or drops the
\* request.
C19_LoadingIffInFlight ==
    /\ isAiLoading <=> pending # << >>
    /\ isAiLoading =>
          /\ \A m \in Modes :
                ~ENABLED (ClickMode(m) /\ ~(isAiLoading' /\ pending' = pending))
          /\ ~ENABLED (ClickAC /\ ~(isAiLoading' /\ pending' = pending))

\* The request is still loading after the switch to the standard mode and a
\* token typed there.
C19_Witness ==
    /\ isAiLoading
    /\ Len(pending) = 1
    /\ mode = "standard"
    /\ expression = Text2

\* C20: a request carries the buffer of the moment it was started, and the
\* record its response writes carries the expression of the request,
\* whatever the buffer is by then.
C20_RecordCarriesCapturedBuffer ==
    [][/\ Len(pending') > Len(pending) =>
             pending'[Len(pending')].expression = expression
       /\ \A i \in 1..Len(pending) :
             (Resolves(i) /\ nextId' # nextId) =>
                /\ history'[1].expression = pending[i].expression
                /\ history'[1].result = result'
                /\ expression' = expression]_vars

\* The newest record is an AI record whose expression is not the buffer
\* shown beside its answer.
C20_Witness ==
    /\ history # << >>
    /\ "isAi" \in DOMAIN history[1]
    /\ history[1].expression # expression
    /\ result = history[1].result
    /\ aiExplain # Null
    /\ mode = "ai"

====
